---------------------------- MODULE Spec2Model ----------------------------
(***************************************************************************)
(* A model of reearth/atlas-packer: the union-find structure               *)
(* (src/src/disjoint_set.rs), the clusterer and the packing loop           *)
(* (src/src/pack.rs), the provider's export (src/src/pack.rs), the         *)
(* parallel pixel merge and the downsampling of crop, DownsampleFactor and *)
(* overlaps (src/src/texture/mod.rs), and uv_to_pixel_coords and calc_bbox *)
(* (src/src/texture/utils.rs).                                             *)
(*                                                                         *)
(* Each subsystem has its own variables and its own specification; a       *)
(* specification leaves the other subsystems' variables at their idle      *)
(* values.                                                                 *)
(***************************************************************************)
EXTENDS Integers, Sequences, FiniteSets, TLC

VARIABLES
    \* ---- DisjointSet (disjoint_set.rs) ----
    parent,            \* DisjointSet.parent: index -> index
    groups,            \* history: the partition generated by the pairs united so far
    \* ---- AtlasPacker / PackedAtlasProvider (pack.rs) ----
    pc,                \* "accumulating" | "packing" | "finalized" | "panicked" |
                       \* "exporting" | "exported" | "idle"
    textures,          \* AtlasPacker.textures: texture id -> texture
    clusters,          \* cluster id -> Cluster (the local of pack, then the provider's field)
    remaining,         \* cluster ids the loop of pack has not visited yet
    current_atlas,     \* the working page: sequence of placed toplevel geometries
    atlases,           \* atlas id -> atlas
    texture_info_map,  \* texture id -> placed texture info
    placerFresh,       \* the placement strategy holds an empty page (initially, after reset_param)
    calls,             \* history: the calls pack made on the placement strategy, in order
    inserted,          \* history: the texture ids of the texture_info_map.insert calls, in order
    finalOrder,        \* history: the atlas ids of the atlases.insert calls, in order
    \* ---- PackedAtlasProvider::export (pack.rs) ----
    output_dir,        \* the output_dir argument of export, a path (sequence of components)
    export_done,       \* the atlas ids whose par_iter task has run
    outputs,           \* the exporter's effect: output path -> the atlas written there
    export_calls,      \* history: output path -> number of exporter.export calls on it
    provider_at_export,\* history: the provider's fields when export was called
    \* ---- CroppedTexture::crop (texture/mod.rs) ----
    crop,              \* the texture being cropped: origin, width, height
    num_threads,       \* rayon::current_num_threads()
    sent,              \* the chunks (by index) whose worker has sent its local_results
    channel,           \* the mpsc channel: the batches sent and not yet received, in order
    clipped,           \* the output ImageBuffer: pixel coordinate -> pixel
    put_count,         \* history: the number of put_pixel calls per coordinate
    \* ---- DownsampleFactor and the downsampling of crop (texture/mod.rs) ----
    texture_pc,        \* "idle" | "start" | "constructed" | "panicked" | "scaled" |
                       \* "overlaps" | "uv" | "pixels" | "bbox"
    factor,            \* the argument of DownsampleFactor::new, an f32
    downsample_factor, \* Option: the DownsampleFactor that was constructed
    clipped_dims,      \* <<clipped.width(), clipped.height()>> at the end of the merge
    scaled,            \* Option: <<scaled_width, scaled_height>> given to resize
    \* ---- CroppedTexture::overlaps (texture/mod.rs) ----
    texture_a,         \* the two textures overlaps is called on
    texture_b,
    overlap_results,   \* <<i, j>> -> the answer of overlaps(texture i, texture j), once called
    \* ---- uv_to_pixel_coords, calc_bbox (texture/utils.rs) ----
    size,              \* <<width, height>> of the source image
    uv_coords,         \* the UV polygon, a sequence of <<u, v>> (f64 each)
    pixel_coords,      \* Option: the result of uv_to_pixel_coords
    bbox               \* Option: the result of calc_bbox

ds_vars == <<parent, groups>>

pack_vars_but_pc == <<textures, clusters, remaining, current_atlas, atlases,
                      texture_info_map, placerFresh, calls, inserted, finalOrder>>

pack_vars == <<pc, textures, clusters, remaining, current_atlas, atlases,
               texture_info_map, placerFresh, calls, inserted, finalOrder>>

export_vars == <<output_dir, export_done, outputs, export_calls, provider_at_export>>

crop_vars == <<crop, num_threads, sent, channel, clipped, put_count>>

texture_vars == <<texture_pc, factor, downsample_factor, clipped_dims, scaled,
                  texture_a, texture_b, overlap_results,
                  size, uv_coords, pixel_coords, bbox>>

vars == <<parent, groups, pc, textures, clusters, remaining, current_atlas, atlases,
          texture_info_map, placerFresh, calls, inserted, finalOrder,
          output_dir, export_done, outputs, export_calls, provider_at_export,
          crop, num_threads, sent, channel, clipped, put_count,
          texture_pc, factor, downsample_factor, clipped_dims, scaled,
          texture_a, texture_b, overlap_results,
          size, uv_coords, pixel_coords, bbox>>

-----------------------------------------------------------------------------
(***************************************************************************)
(* Bounds of the model.                                                    *)
(***************************************************************************)

\* Number of elements of the DisjointSet under test (the unit test uses 5).
DSSize == 5

\* Number of distinct texture ids a packer is given.
MaxFrag == 3

\* Width and height, in pixels, of the source images the fragments are cut from.
ImgW == 2
ImgH == 2

\* Largest width and height of a texture given to crop, largest coordinate of
\* its origin, and largest size of the worker pool.
MaxCropW == 3
MaxCropH == 3
MaxOrigin == 1
MaxThreads == 3

\* A downsample factor is a multiple of 1/FactorDen.
FactorDen == 4

\* A UV coordinate is a multiple of 1/UvDen; a UV polygon has at most MaxPoly
\* points; a source image is at most MaxSize pixels wide and high.
UvDen == 2
MaxPoly == 2
MaxSize == 2

-----------------------------------------------------------------------------
(***************************************************************************)
(* DisjointSet: src/src/disjoint_set.rs                                    *)
(***************************************************************************)

\* DisjointSet::new: parent = (0..num_elements).collect()
DisjointSet_new(num_elements) == [i \in 0 .. num_elements - 1 |-> i]

\* DisjointSet::root: follow parent pointers to the element that is its own parent.
RECURSIVE root(_, _)
root(p, x) == IF p[x] = x THEN x ELSE root(p, p[x])

\* A unite that links x itself, not the root of x, under the root of y.
unite_no_root(p, x, y) == [p EXCEPT ![x] = root(p, y)]

\* A unite that links the elements themselves and not their roots.
unite_elements(p, x, y) == [p EXCEPT ![x] = y]

\* DisjointSet::unite: parent[root(x)] = root(y)
unite(p, x, y) ==
    LET root_x == root(p, x)
        root_y == root(p, y)
    IN  [p EXCEPT ![root_x] = root_y]

\* DisjointSet::is_same
is_same(p, x, y) == root(p, x) = root(p, y)

\* The block of partition P that holds x.
BlockOf(P, x) == CHOOSE b \in P : x \in b

\* The partition P after x and y were declared related: their blocks are merged.
MergeBlocks(P, x, y) ==
    (P \ {BlockOf(P, x), BlockOf(P, y)}) \cup {BlockOf(P, x) \cup BlockOf(P, y)}

-----------------------------------------------------------------------------
(***************************************************************************)
(* Texture fragments: src/src/texture/mod.rs                               *)
(***************************************************************************)

\* Source images (image_path).
Sources == {"tex.png", "other.png"}

\* Texture ids given to add_texture.
FragIds == 1 .. MaxFrag

\* The boxes CroppedTexture::new computes: origin = (min_x, min_y) and
\* width = max_x - min_x, height = max_y - min_y of pixel coordinates that
\* uv_to_pixel_coords clamps to [0, ImgW - 1] x [0, ImgH - 1].
Textures ==
    { t \in [image_path : Sources, origin : (0 .. ImgW - 1) \X (0 .. ImgH - 1),
             width : 0 .. ImgW - 1, height : 0 .. ImgH - 1] :
        /\ t.origin[1] + t.width <= ImgW - 1
        /\ t.origin[2] + t.height <= ImgH - 1 }

\* The fragments cut from the first pixel row of an image.
RowTextures == { t \in Textures : t.origin[2] = 0 /\ t.height = 0 }

\* An overlap test that compares the boxes and not the image paths.
overlaps_any_image(self, other) ==
    LET x1 == self.origin[1]
        y1 == self.origin[2]
        w1 == self.width
        h1 == self.height
        x2 == other.origin[1]
        y2 == other.origin[2]
        w2 == other.width
        h2 == other.height
    IN  ~(x1 + w1 < x2 \/ x2 + w2 < x1 \/ y1 + h1 < y2 \/ y2 + h2 < y1)

\* An overlap test for which boxes that only touch do not overlap.
overlaps_no_touch(self, other) ==
    IF self.image_path # other.image_path
    THEN FALSE
    ELSE LET x1 == self.origin[1]
             y1 == self.origin[2]
             w1 == self.width
             h1 == self.height
             x2 == other.origin[1]
             y2 == other.origin[2]
             w2 == other.width
             h2 == other.height
         IN  ~(x1 + w1 <= x2 \/ x2 + w2 <= x1 \/ y1 + h1 <= y2 \/ y2 + h2 <= y1)

\* CroppedTexture::overlaps
overlaps(self, other) ==
    IF self.image_path # other.image_path
    THEN FALSE
    ELSE LET x1 == self.origin[1]
             y1 == self.origin[2]
             w1 == self.width
             h1 == self.height
             x2 == other.origin[1]
             y2 == other.origin[2]
             w2 == other.width
             h2 == other.height
         IN  ~(x1 + w1 < x2 \/ x2 + w2 < x1 \/ y1 + h1 < y2 \/ y2 + h2 < y1)

\* PolygonMappedTexture::bbox_overlaps (pack.rs:49): the overlap predicate of the
\* fragment model, same source image and intersecting boxes.
bbox_overlaps(self, other) == overlaps(self, other)

\* Option<T>: None, Some(v)
None == <<>>
Some(v) == <<v>>
is_some(o) == Len(o) = 1
unwrap(o) == o[1]

Min(a, b) == IF a < b THEN a ELSE b
Max(a, b) == IF a > b THEN a ELSE b

\* ToplevelTexture::new: the toplevel region of a single fragment is its box.
ToplevelTexture_new(texture) ==
    [image_path |-> texture.image_path, origin |-> texture.origin,
     width |-> texture.width, height |-> texture.height]

\* ToplevelTexture::expand: the union of the two boxes; None for another source image.
expand(self, texture) ==
    IF self.image_path # texture.image_path
    THEN None
    ELSE LET min_x == Min(self.origin[1], texture.origin[1])
             min_y == Min(self.origin[2], texture.origin[2])
             max_x == Max(self.origin[1] + self.width, texture.origin[1] + texture.width)
             max_y == Max(self.origin[2] + self.height, texture.origin[2] + texture.height)
         IN  Some([image_path |-> self.image_path, origin |-> <<min_x, min_y>>,
                   width |-> max_x - min_x, height |-> max_y - min_y])

\* ToplevelTexture::get_child: the member's offset within the toplevel region.
get_child(self, texture) ==
    [offset |-> <<texture.origin[1] - self.origin[1], texture.origin[2] - self.origin[2]>>,
     width |-> texture.width, height |-> texture.height]

-----------------------------------------------------------------------------
(***************************************************************************)
(* Clusterer: AtlasPacker::create_cluster, src/src/pack.rs                 *)
(***************************************************************************)

\* usize::to_string: the decimal digits, most significant first.
RECURSIVE to_string(_)
to_string(n) == IF n < 10 THEN <<n>> ELSE Append(to_string(n \div 10), n % 10)

\* The orders in which HashMap::keys may yield the keys of map m.
KeyOrders(m) ==
    { s \in [1 .. Cardinality(DOMAIN m) -> DOMAIN m] :
        \A i, j \in DOMAIN s : i # j => s[i] # s[j] }

\* The double loop of create_cluster from (i, j) on: unite(i, j) for every pair
\* i < j whose textures overlap; texture_ids[i] of the code is ids[i + 1].
RECURSIVE unite_overlapping(_, _, _, _, _)
unite_overlapping(p, texs, ids, i, j) ==
    IF i >= Len(ids) THEN p
    ELSE IF j >= Len(ids) THEN unite_overlapping(p, texs, ids, i + 1, i + 2)
    ELSE LET texture_i == texs[ids[i + 1]]
             texture_j == texs[ids[j + 1]]
         IN  unite_overlapping(
                 IF bbox_overlaps(texture_i, texture_j) THEN unite(p, i, j) ELSE p,
                 texs, ids, i, j + 1)

\* DisjointSet::compress (pack.rs:54): the path-compression pass, every element
\* is repointed to its root.
compress(p) == [i \in DOMAIN p |-> root(p, i)]

\* The disjoint set create_cluster builds over the indices of texture_ids.
cluster_disjoint_set(texs, ids) ==
    compress(unite_overlapping(DisjointSet_new(Len(ids)), texs, ids, 0, 1))

\* The texture ids whose index has a root named cluster_id, in index order,
\* from index i on.
RECURSIVE ids_of_cluster(_, _, _, _)
ids_of_cluster(disjoint_set, ids, cluster_id, i) ==
    IF i >= Len(ids) THEN <<>>
    ELSE (IF to_string(root(disjoint_set, i)) = cluster_id THEN <<ids[i + 1]>> ELSE <<>>)
         \o ids_of_cluster(disjoint_set, ids, cluster_id, i + 1)

\* cluster_id_map: cluster id -> texture ids, each pushed in index order.
cluster_id_map(texs, ids) ==
    LET disjoint_set == cluster_disjoint_set(texs, ids)
    IN  [cluster_id \in { to_string(root(disjoint_set, i)) : i \in 0 .. Len(ids) - 1 } |->
            ids_of_cluster(disjoint_set, ids, cluster_id, 0)]

\* A fold that starts from the second member and leaves the first out.
RECURSIVE fold_toplevel_skip_first(_, _, _, _)
fold_toplevel_skip_first(acc, texs, texture_ids, k) ==
    IF k > Len(texture_ids) THEN acc
    ELSE LET texture == texs[texture_ids[k]]
         IN  fold_toplevel_skip_first(
                 IF is_some(acc) /\ k > 2 THEN expand(unwrap(acc), texture)
                 ELSE Some(ToplevelTexture_new(texture)),
                 texs, texture_ids, k + 1)

\* A fold whose Some arm starts over from the member instead of expanding.
RECURSIVE fold_toplevel_restart(_, _, _, _)
fold_toplevel_restart(acc, texs, texture_ids, k) ==
    IF k > Len(texture_ids) THEN acc
    ELSE LET texture == texs[texture_ids[k]]
         IN  fold_toplevel_restart(Some(ToplevelTexture_new(texture)),
                                   texs, texture_ids, k + 1)

\* The fold of create_cluster over a cluster's texture ids, from position k on.
RECURSIVE fold_toplevel(_, _, _, _)
fold_toplevel(acc, texs, texture_ids, k) ==
    IF k > Len(texture_ids) THEN acc
    ELSE LET texture == texs[texture_ids[k]]
         IN  fold_toplevel(
                 IF is_some(acc) THEN expand(unwrap(acc), texture)
                 ELSE Some(ToplevelTexture_new(texture)),
                 texs, texture_ids, k + 1)

\* Whether create_cluster panics: the unwrap of a fold that ended in None.
create_cluster_panics(texs, ids) ==
    LET id_map == cluster_id_map(texs, ids)
    IN  \E cid \in DOMAIN id_map : ~is_some(fold_toplevel(None, texs, id_map[cid], 1))

\* AtlasPacker::create_cluster, with ids the order the keys came in.
create_cluster(texs, ids) ==
    LET id_map == cluster_id_map(texs, ids)
    IN  [cid \in DOMAIN id_map |->
            LET texture_ids == id_map[cid]
                toplevel_texture == unwrap(fold_toplevel(None, texs, texture_ids, 1))
            IN  [toplevel_texture |-> toplevel_texture,
                 children |->
                    [k \in 1 .. Len(texture_ids) |->
                        <<texture_ids[k], get_child(toplevel_texture, texs[texture_ids[k]])>>]]]

DSIdle ==
    /\ parent = <<>>
    /\ groups = {}

CropIdle ==
    /\ crop = <<>>
    /\ num_threads = 0
    /\ sent = {}
    /\ channel = <<>>
    /\ clipped = <<>>
    /\ put_count = <<>>

TextureIdle ==
    /\ texture_pc = "idle"
    /\ factor = <<>>
    /\ downsample_factor = <<>>
    /\ clipped_dims = <<>>
    /\ scaled = <<>>
    /\ texture_a = <<>>
    /\ texture_b = <<>>
    /\ overlap_results = <<>>
    /\ size = <<>>
    /\ uv_coords = <<>>
    /\ pixel_coords = <<>>
    /\ bbox = <<>>

ExportIdle ==
    /\ output_dir = <<>>
    /\ export_done = {}
    /\ outputs = <<>>
    /\ export_calls = <<>>
    /\ provider_at_export = <<>>

PackIdle ==
    /\ pc = "idle"
    /\ textures = <<>>
    /\ clusters = <<>>
    /\ remaining = {}
    /\ current_atlas = <<>>
    /\ atlases = <<>>
    /\ texture_info_map = <<>>
    /\ placerFresh = TRUE
    /\ calls = <<>>
    /\ inserted = <<>>
    /\ finalOrder = <<>>

-----------------------------------------------------------------------------
(***************************************************************************)
(* Placement strategy (TexturePlacer) and the packing loop:                *)
(* AtlasPacker::pack, src/src/pack.rs                                      *)
(***************************************************************************)

\* TexturePlacer::place_texture: commits the region to the current page and
\* returns the placement of the toplevel and one placement per child.
place_texture(toplevel_texture, children, cluster_id, atlas_id) ==
    << [cluster_id |-> cluster_id, atlas_id |-> atlas_id,
        width |-> toplevel_texture.width, height |-> toplevel_texture.height],
       [k \in 1 .. Len(children) |->
           Some([atlas_id |-> atlas_id, cluster_id |-> cluster_id,
                 offset |-> children[k][2].offset])] >>

\* An id that counts the pages from one.
atlas_key_from_one(atl) == to_string(Cardinality(DOMAIN atl) + 1)

\* The id a page is stored under: let current_atlas_id = atlases.len(), then
\* current_atlas_id.to_string()
atlas_key(atl) == to_string(Cardinality(DOMAIN atl))

\* An insert that stores the working page after it was cleared.
insert_atlas_after_clear(atl, atlas) == (atlas_key(atl) :> <<>>) @@ atl

\* atlases.insert(current_atlas_id.to_string(), current_atlas.clone())
insert_atlas(atl, atlas) == (atlas_key(atl) :> atlas) @@ atl

\* A page id taken before the refused page is stored: the id of the page
\* that is being closed.
current_atlas_id_before_insert(atl) ==
    IF atl = <<>> THEN to_string(0) ELSE to_string(Cardinality(DOMAIN atl) - 1)

\* The id given to place_texture: atlases.len().to_string()
current_atlas_id_of(atl) == to_string(Cardinality(DOMAIN atl))

\* A loop body that resets the placer for every item.
placer_calls_reset_always(cluster_id, can, fits, current_atlas_id) ==
    << [op |-> "can_place", cluster_id |-> cluster_id, ret |-> can,
        fits_empty_page |-> fits],
       [op |-> "reset_param"],
       [op |-> "place_texture", cluster_id |-> cluster_id, atlas_id |-> current_atlas_id] >>

\* The calls one iteration of the loop of pack makes on the placer, in order:
\* can_place, reset_param if it answered false, place_texture.
placer_calls(cluster_id, can, fits, current_atlas_id) ==
    << [op |-> "can_place", cluster_id |-> cluster_id, ret |-> can,
        fits_empty_page |-> fits] >>
    \o (IF ~can THEN << [op |-> "reset_param"] >> ELSE <<>>)
    \o << [op |-> "place_texture", cluster_id |-> cluster_id,
           atlas_id |-> current_atlas_id] >>

\* A pack that returns without storing the working page.
store_last_atlas_missing(atl, atlas) == atl

\* "treat the last atlas": the working page is stored if it is not empty.
store_last_atlas(atl, atlas) ==
    IF atlas # <<>> THEN insert_atlas(atl, atlas) ELSE atl

\* A loop that stops before the last pair of the zip.
RECURSIVE insert_child_infos_drop_last(_, _, _, _)
insert_child_infos_drop_last(info_map, children_texture_infos, children, k) ==
    IF k >= Len(children_texture_infos) \/ k >= Len(children)
    THEN info_map
    ELSE insert_child_infos_drop_last(
             IF is_some(children_texture_infos[k])
             THEN (children[k][1] :> unwrap(children_texture_infos[k])) @@ info_map
             ELSE info_map,
             children_texture_infos, children, k + 1)

\* The loop over children_texture_infos zipped with the children's ids, from
\* pair k on: texture_info_map.insert for every info that is Some.
RECURSIVE insert_child_infos(_, _, _, _)
insert_child_infos(info_map, children_texture_infos, children, k) ==
    IF k > Len(children_texture_infos) \/ k > Len(children)
    THEN info_map
    ELSE insert_child_infos(
             IF is_some(children_texture_infos[k])
             THEN (children[k][1] :> unwrap(children_texture_infos[k])) @@ info_map
             ELSE info_map,
             children_texture_infos, children, k + 1)

\* The texture ids the loop above inserts, in order.
RECURSIVE inserted_ids(_, _, _)
inserted_ids(children_texture_infos, children, k) ==
    IF k > Len(children_texture_infos) \/ k > Len(children)
    THEN <<>>
    ELSE (IF is_some(children_texture_infos[k]) THEN <<children[k][1]>> ELSE <<>>)
         \o inserted_ids(children_texture_infos, children, k + 1)

InitPack ==
    /\ pc = "accumulating"
    /\ textures = <<>>
    /\ clusters = <<>>
    /\ remaining = {}
    /\ current_atlas = <<>>
    /\ atlases = <<>>
    /\ texture_info_map = <<>>
    /\ placerFresh = TRUE
    /\ calls = <<>>
    /\ inserted = <<>>
    /\ finalOrder = <<>>
    /\ DSIdle
    /\ CropIdle
    /\ ExportIdle
    /\ TextureIdle

\* AtlasPacker::add_texture
AddTexture(texture_id, texture) ==
    /\ pc = "accumulating"
    /\ textures' = (texture_id :> texture) @@ textures
    /\ UNCHANGED <<pc, clusters, remaining, current_atlas, atlases, texture_info_map,
                   placerFresh, calls, inserted, finalOrder>>
    /\ UNCHANGED ds_vars
    /\ UNCHANGED crop_vars
    /\ UNCHANGED texture_vars
    /\ UNCHANGED export_vars

\* pack, up to its loop: the locals are created and create_cluster is called;
\* ids is the order in which self.textures.keys() yields the keys.
PackBegin(ids) ==
    /\ pc = "accumulating"
    /\ pc' = IF create_cluster_panics(textures, ids) THEN "panicked" ELSE "packing"
    /\ clusters' = IF create_cluster_panics(textures, ids) THEN <<>>
                   ELSE create_cluster(textures, ids)
    /\ remaining' = DOMAIN clusters'
    /\ current_atlas' = <<>>
    /\ atlases' = <<>>
    /\ texture_info_map' = <<>>
    /\ UNCHANGED <<textures, placerFresh, calls, inserted, finalOrder>>
    /\ UNCHANGED ds_vars
    /\ UNCHANGED crop_vars
    /\ UNCHANGED texture_vars
    /\ UNCHANGED export_vars

\* One iteration of the loop of pack, for the cluster clusters.iter() yields
\* next. can is the answer of placer.can_place; fits tells whether the region
\* fits an empty page.
PackCluster(cluster_id, can, fits) ==
    /\ pc = "packing"
    /\ cluster_id \in remaining
    /\ can => fits
    /\ placerFresh => (fits = can)
    /\ LET cluster == clusters[cluster_id]
           atlases1 == IF ~can THEN insert_atlas(atlases, current_atlas) ELSE atlases
           current1 == IF ~can THEN <<>> ELSE current_atlas
           current_atlas_id == current_atlas_id_of(atlases1)
           placed == place_texture(cluster.toplevel_texture, cluster.children,
                                   cluster_id, current_atlas_id)
           toplevel_texture_info == placed[1]
           children_texture_infos == placed[2]
       IN  /\ atlases' = atlases1
           /\ current_atlas' = Append(current1, toplevel_texture_info)
           /\ texture_info_map' =
                  insert_child_infos(texture_info_map, children_texture_infos,
                                     cluster.children, 1)
           /\ inserted' = inserted \o inserted_ids(children_texture_infos, cluster.children, 1)
           /\ finalOrder' =
                  IF ~can THEN Append(finalOrder, atlas_key(atlases)) ELSE finalOrder
           /\ calls' = calls \o placer_calls(cluster_id, can, fits, current_atlas_id)
    /\ placerFresh' = FALSE
    /\ remaining' = remaining \ {cluster_id}
    /\ UNCHANGED <<pc, textures, clusters>>
    /\ UNCHANGED ds_vars
    /\ UNCHANGED crop_vars
    /\ UNCHANGED texture_vars
    /\ UNCHANGED export_vars

\* pack, after its loop: the last atlas is stored and the provider is returned.
PackEnd ==
    /\ pc = "packing"
    /\ remaining = {}
    /\ pc' = "finalized"
    /\ atlases' = store_last_atlas(atlases, current_atlas)
    /\ finalOrder' = IF current_atlas # <<>> THEN Append(finalOrder, atlas_key(atlases))
                     ELSE finalOrder
    /\ current_atlas' = <<>>
    /\ UNCHANGED <<textures, clusters, remaining, texture_info_map, placerFresh, calls,
                   inserted>>
    /\ UNCHANGED ds_vars
    /\ UNCHANGED crop_vars
    /\ UNCHANGED texture_vars
    /\ UNCHANGED export_vars

\* PackedAtlasProvider::get_texture_info
get_texture_info(id) ==
    IF id \in DOMAIN texture_info_map THEN Some(texture_info_map[id]) ELSE None

NextPack ==
    \/ \E texture_id \in FragIds, texture \in RowTextures : AddTexture(texture_id, texture)
    \/ \E ids \in KeyOrders(textures) : PackBegin(ids)
    \/ \E cluster_id \in remaining, can \in BOOLEAN, fits \in BOOLEAN :
          PackCluster(cluster_id, can, fits)
    \/ PackEnd

Spec == InitPack /\ [][NextPack]_vars

\* The end-to-end scenario: three fragments of "tex.png" whose boxes overlap
\* pairwise and one fragment of "other.png" whose box is identical to one of them.
SameBox(a, b) == a.origin = b.origin /\ a.width = b.width /\ a.height = b.height

ScenarioTextures ==
    { m \in [1 .. 4 -> RowTextures] :
        /\ \A i \in 1 .. 3 : m[i].image_path = "tex.png"
        /\ \A i, j \in 1 .. 3 : overlaps(m[i], m[j])
        /\ m[4].image_path = "other.png"
        /\ \E i \in 1 .. 3 : SameBox(m[4], m[i]) }

InitScenario ==
    /\ pc = "accumulating"
    /\ textures \in ScenarioTextures
    /\ clusters = <<>>
    /\ remaining = {}
    /\ current_atlas = <<>>
    /\ atlases = <<>>
    /\ texture_info_map = <<>>
    /\ placerFresh = TRUE
    /\ calls = <<>>
    /\ inserted = <<>>
    /\ finalOrder = <<>>
    /\ DSIdle
    /\ CropIdle
    /\ ExportIdle
    /\ TextureIdle

NextScenario ==
    \/ \E ids \in KeyOrders(textures) : PackBegin(ids)
    \/ \E cluster_id \in remaining, can \in BOOLEAN, fits \in BOOLEAN :
          PackCluster(cluster_id, can, fits)
    \/ PackEnd

SpecScenario == InitScenario /\ [][NextScenario]_vars

NextCluster ==
    \/ \E texture_id \in FragIds, texture \in Textures : AddTexture(texture_id, texture)
    \/ \E ids \in KeyOrders(textures) : PackBegin(ids)

SpecCluster == InitPack /\ [][NextCluster]_vars

-----------------------------------------------------------------------------
(***************************************************************************)
(* PackedAtlasProvider::export, src/src/pack.rs                            *)
(***************************************************************************)

\* The directories export is given.
OutputDirs == { <<"out">>, <<"out", "atlas">> }

\* The fragments of one pixel at the origin of an image.
SpotTextures == { t \in RowTextures : t.origin = <<0, 0>> /\ t.width = 0 }

\* A path that leaves the atlas id out.
join_without_id(dir, id) == dir

\* Path::join for a relative component: the component is appended.
join(dir, id) == Append(dir, id)

\* The toplevel textures export collects for the exporter: cluster id -> toplevel.
toplevel_textures == [c \in DOMAIN clusters |-> clusters[c].toplevel_texture]

\* AtlasExporter::export: the atlas is written at output_path.
exporter_export(out, atlas, toplevels, output_path) == (output_path :> atlas) @@ out

\* export is called on the provider pack returned.
ExportBegin(dir) ==
    /\ pc = "finalized"
    /\ pc' = "exporting"
    /\ output_dir' = dir
    /\ export_done' = {}
    /\ outputs' = <<>>
    /\ export_calls' = <<>>
    /\ provider_at_export' = <<atlases, clusters, texture_info_map>>
    /\ UNCHANGED pack_vars_but_pc
    /\ UNCHANGED ds_vars
    /\ UNCHANGED crop_vars
    /\ UNCHANGED texture_vars

\* The task par_iter runs for the entry (id, atlas) of self.atlases.
ExportPage(id) ==
    /\ pc = "exporting"
    /\ id \in DOMAIN atlases
    /\ id \notin export_done
    /\ LET atlas == atlases[id]
           output_path == join(output_dir, id)
       IN  /\ outputs' = exporter_export(outputs, atlas, toplevel_textures, output_path)
           /\ export_calls' =
                  (output_path :>
                      (IF output_path \in DOMAIN export_calls THEN export_calls[output_path]
                       ELSE 0) + 1)
                  @@ export_calls
    /\ export_done' = export_done \cup {id}
    /\ UNCHANGED <<output_dir, provider_at_export>>
    /\ UNCHANGED pack_vars
    /\ UNCHANGED ds_vars
    /\ UNCHANGED crop_vars
    /\ UNCHANGED texture_vars

\* for_each returns when every task has run, and export returns.
ExportEnd ==
    /\ pc = "exporting"
    /\ export_done = DOMAIN atlases
    /\ pc' = "exported"
    /\ UNCHANGED pack_vars_but_pc
    /\ UNCHANGED export_vars
    /\ UNCHANGED ds_vars
    /\ UNCHANGED crop_vars
    /\ UNCHANGED texture_vars

NextExport ==
    \/ \E texture_id \in FragIds, texture \in SpotTextures : AddTexture(texture_id, texture)
    \/ \E ids \in KeyOrders(textures) : PackBegin(ids)
    \/ \E cluster_id \in remaining, can \in BOOLEAN, fits \in BOOLEAN :
          PackCluster(cluster_id, can, fits)
    \/ PackEnd
    \/ \E dir \in OutputDirs : ExportBegin(dir)
    \/ \E id \in DOMAIN atlases : ExportPage(id)
    \/ ExportEnd

SpecExport == InitPack /\ [][NextExport]_vars

-----------------------------------------------------------------------------
(***************************************************************************)
(* CroppedTexture::crop, src/src/texture/mod.rs: the parallel pass over    *)
(* the pixels and the merge of the workers' results.                       *)
(*                                                                         *)
(* A pixel is the pair of source-image coordinates it was read from: the   *)
(* output of crop is compared with the source pixel by pixel, whatever the *)
(* colours of the image are.                                               *)
(***************************************************************************)

\* The pixel of a fresh ImageBuffer.
Blank == <<"blank">>

\* image.view(x, y, width, height).to_image(): pixel (px, py) of the cropped
\* image is pixel (x + px, y + py) of the source image.
cropped_image(t) ==
    [c \in (0 .. t.width - 1) \X (0 .. t.height - 1) |->
        <<t.origin[1] + c[1], t.origin[2] + c[2]>>]

\* cropped_image.enumerate_pixels().collect(): (x, y, pixel) row by row.
enumerate_pixels(t) ==
    [i \in 1 .. t.width * t.height |->
        LET px == (i - 1) % t.width
            py == (i - 1) \div t.width
        IN  <<px, py, cropped_image(t)[<<px, py>>]>>]

\* Ord::clamp
clamp(v, lo, hi) == IF v < lo THEN lo ELSE IF v > hi THEN hi ELSE v

\* (pixels.len() / num_threads).clamp(1, pixels.len() + 1)
chunk_size(len, threads) == clamp(len \div threads, 1, len + 1)

\* slice.par_chunks(n): the consecutive chunks of n elements, the last one shorter.
RECURSIVE par_chunks(_, _)
par_chunks(s, n) ==
    IF Len(s) = 0 THEN <<>>
    ELSE IF Len(s) <= n THEN <<s>>
    ELSE <<SubSeq(s, 1, n)>> \o par_chunks(SubSeq(s, n + 1, Len(s)), n)

\* The chunks the workers of crop are given.
crop_chunks(t, threads) ==
    par_chunks(enumerate_pixels(t), chunk_size(t.width * t.height, threads))

\* The closure run on one chunk: local_results gets (px, py, pixel) for every
\* pixel of the chunk, inside the polygon or not.
local_results(chunk) == [k \in 1 .. Len(chunk) |-> <<chunk[k][1], chunk[k][2], chunk[k][3]>>]

\* The coordinate of the first blank pixel of img, row by row.
first_blank(img, width) ==
    LET blanks == { c \in DOMAIN img : img[c] = Blank }
    IN  CHOOSE c \in blanks :
            \A d \in blanks : c[2] * width + c[1] <= d[2] * width + d[1]

\* A merge that appends the received pixels in the order of their arrival.
RECURSIVE put_received_append(_, _, _)
put_received_append(img, received, k) ==
    IF k > Len(received) THEN img
    ELSE put_received_append(
             [img EXCEPT ![first_blank(img, crop.width)] = received[k][3]],
             received, k + 1)

\* The merge of one received batch, from entry k on:
\* clipped.put_pixel(px, py, pixel) for every (px, py, pixel).
RECURSIVE put_received(_, _, _)
put_received(img, received, k) ==
    IF k > Len(received) THEN img
    ELSE put_received(
             [img EXCEPT ![<<received[k][1], received[k][2]>>] = received[k][3]],
             received, k + 1)

\* The textures crop is called on.
CropTextures ==
    [origin : (0 .. MaxOrigin) \X (0 .. MaxOrigin), width : 0 .. MaxCropW, height : 0 .. MaxCropH]

InitCrop ==
    /\ crop \in CropTextures
    /\ num_threads \in 1 .. MaxThreads
    /\ sent = {}
    /\ channel = <<>>
    /\ clipped = [c \in (0 .. crop.width - 1) \X (0 .. crop.height - 1) |-> Blank]
    /\ put_count = [c \in (0 .. crop.width - 1) \X (0 .. crop.height - 1) |-> 0]
    /\ DSIdle
    /\ PackIdle
    /\ ExportIdle
    /\ TextureIdle

\* A worker runs the closure of for_each_with on chunk k and sends its results.
WorkerSend(k) ==
    /\ k \in DOMAIN crop_chunks(crop, num_threads)
    /\ k \notin sent
    /\ sent' = sent \cup {k}
    /\ channel' = Append(channel, local_results(crop_chunks(crop, num_threads)[k]))
    /\ UNCHANGED <<crop, num_threads, clipped, put_count>>
    /\ UNCHANGED ds_vars
    /\ UNCHANGED pack_vars
    /\ UNCHANGED export_vars
    /\ UNCHANGED texture_vars

\* The main thread, once for_each_with has returned, receives one batch and
\* writes its pixels.
Receive ==
    /\ sent = DOMAIN crop_chunks(crop, num_threads)
    /\ channel # <<>>
    /\ clipped' = put_received(clipped, Head(channel), 1)
    /\ put_count' =
          [c \in DOMAIN put_count |->
              put_count[c]
              + Cardinality({ k \in DOMAIN Head(channel) :
                                <<Head(channel)[k][1], Head(channel)[k][2]>> = c })]
    /\ channel' = Tail(channel)
    /\ UNCHANGED <<crop, num_threads, sent>>
    /\ UNCHANGED ds_vars
    /\ UNCHANGED pack_vars
    /\ UNCHANGED export_vars
    /\ UNCHANGED texture_vars

NextCrop ==
    \/ \E k \in 1 .. (MaxCropW * MaxCropH) : WorkerSend(k)
    \/ Receive

SpecCrop == InitCrop /\ [][NextCrop]_vars

\* The receive loop of crop has ended: every worker sent, every batch was received.
CropMerged == sent = DOMAIN crop_chunks(crop, num_threads) /\ channel = <<>>

(***************************************************************************)
(* DownsampleFactor and the downsampling at the end of crop,               *)
(* src/src/texture/mod.rs.                                                 *)
(*                                                                         *)
(* A float is a record: nan tells whether it is NaN, num is its numerator  *)
(* over the denominator of its context (FactorDen for a downsample factor, *)
(* UvDen for a UV coordinate). With a denominator that is a power of two   *)
(* and the small integers of the model every product below is exact in     *)
(* f32 and in f64.                                                         *)
(***************************************************************************)

Float(n) == [nan |-> FALSE, num |-> n]
NaN == [nan |-> TRUE, num |-> 0]

\* The f32 arguments DownsampleFactor::new is called with: -1/FactorDen ..
\* (FactorDen + 1)/FactorDen, and NaN.
FactorArgs == { Float(n) : n \in -1 .. FactorDen + 1 } \cup { NaN }

\* (0.0..=1.0).contains(factor): 0.0 <= factor && factor <= 1.0, false for NaN
contains_0_1(f) == ~f.nan /\ 0 <= f.num /\ f.num <= FactorDen

\* A constructor that clamps its argument instead of panicking.
DownsampleFactor_new_clamped(f) ==
    [panic |-> FALSE,
     value |-> IF f.nan THEN Float(0) ELSE Float(clamp(f.num, 0, FactorDen))]

\* DownsampleFactor::new: the value, or a panic
DownsampleFactor_new(f) ==
    IF contains_0_1(f) THEN [panic |-> FALSE, value |-> f]
    ELSE [panic |-> TRUE, value |-> f]

\* DownsampleFactor::value
value(d) == d

\* (clipped.width() as f32 * self.downsample_factor.value()) as u32: the
\* product, truncated toward zero (NaN and negative values give 0)
scaled_dim(dim, f) ==
    IF f.nan \/ f.num < 0 THEN 0 ELSE (dim * f.num) \div FactorDen

InitDownsample ==
    /\ texture_pc = "start"
    /\ factor \in FactorArgs
    /\ downsample_factor = None
    /\ clipped_dims \in (0 .. MaxCropW) \X (0 .. MaxCropH)
    /\ scaled = None
    /\ texture_a = <<>>
    /\ texture_b = <<>>
    /\ overlap_results = <<>>
    /\ size = <<>>
    /\ uv_coords = <<>>
    /\ pixel_coords = <<>>
    /\ bbox = <<>>
    /\ DSIdle
    /\ PackIdle
    /\ CropIdle
    /\ ExportIdle

\* DownsampleFactor::new(&factor)
NewDownsampleFactor ==
    /\ texture_pc = "start"
    /\ texture_pc' = IF DownsampleFactor_new(factor).panic THEN "panicked" ELSE "constructed"
    /\ downsample_factor' = IF DownsampleFactor_new(factor).panic THEN None
                            ELSE Some(DownsampleFactor_new(factor).value)
    /\ UNCHANGED <<factor, clipped_dims, scaled, texture_a, texture_b, overlap_results,
                   size, uv_coords, pixel_coords, bbox>>
    /\ UNCHANGED ds_vars
    /\ UNCHANGED pack_vars
    /\ UNCHANGED crop_vars
    /\ UNCHANGED export_vars

\* The end of crop, on a texture that holds the factor: scaled_width and
\* scaled_height are computed and given to resize.
Downsample ==
    /\ texture_pc = "constructed"
    /\ texture_pc' = "scaled"
    /\ scaled' = Some(<< scaled_dim(clipped_dims[1], value(unwrap(downsample_factor))),
                         scaled_dim(clipped_dims[2], value(unwrap(downsample_factor))) >>)
    /\ UNCHANGED <<factor, downsample_factor, clipped_dims, texture_a, texture_b,
                   overlap_results, size, uv_coords, pixel_coords, bbox>>
    /\ UNCHANGED ds_vars
    /\ UNCHANGED pack_vars
    /\ UNCHANGED crop_vars
    /\ UNCHANGED export_vars

NextDownsample ==
    \/ NewDownsampleFactor
    \/ Downsample

SpecDownsample == InitDownsample /\ [][NextDownsample]_vars

(***************************************************************************)
(* Calls of CroppedTexture::overlaps on two textures, in both orders and   *)
(* on a texture and itself.                                                *)
(***************************************************************************)

\* The texture an index of overlap_results stands for.
texture_of(i) == IF i = 1 THEN texture_a ELSE texture_b

InitOverlaps ==
    /\ texture_pc = "overlaps"
    /\ texture_a \in Textures
    /\ texture_b \in Textures
    /\ overlap_results = <<>>
    /\ factor = <<>>
    /\ downsample_factor = <<>>
    /\ clipped_dims = <<>>
    /\ scaled = <<>>
    /\ size = <<>>
    /\ uv_coords = <<>>
    /\ pixel_coords = <<>>
    /\ bbox = <<>>
    /\ DSIdle
    /\ PackIdle
    /\ CropIdle
    /\ ExportIdle

\* texture i .overlaps(texture j)
CallOverlaps(i, j) ==
    /\ texture_pc = "overlaps"
    /\ <<i, j>> \notin DOMAIN overlap_results
    /\ overlap_results' =
           (<<i, j>> :> overlaps(texture_of(i), texture_of(j))) @@ overlap_results
    /\ UNCHANGED <<texture_pc, factor, downsample_factor, clipped_dims, scaled,
                   texture_a, texture_b, size, uv_coords, pixel_coords, bbox>>
    /\ UNCHANGED ds_vars
    /\ UNCHANGED pack_vars
    /\ UNCHANGED crop_vars
    /\ UNCHANGED export_vars

NextOverlaps == \E i, j \in 1 .. 2 : CallOverlaps(i, j)

SpecOverlaps == InitOverlaps /\ [][NextOverlaps]_vars

(***************************************************************************)
(* uv_to_pixel_coords and calc_bbox, src/src/texture/utils.rs              *)
(***************************************************************************)

\* u32::MAX, the start of the minima of calc_bbox. TLC's integers end at
\* 2^31 - 1, below u32::MAX = 2^32 - 1: the model takes the largest integer TLC
\* has, which is above every coordinate of the model as u32::MAX is.
U32_MAX == 2147483647

\* f64::clamp(0.0, 1.0): NaN stays NaN
clamp_0_1(x) == IF x.nan THEN x ELSE Float(clamp(x.num, 0, UvDen))

\* 1.0 - x
one_minus(x) == IF x.nan THEN x ELSE Float(UvDen - x.num)

\* x * (dim as f64)
times(x, dim) == IF x.nan THEN x ELSE Float(x.num * dim)

\* f64::min with (dim as f64 - 1.0): the other operand if one is NaN
min_f64(x, y) == IF x.nan THEN y ELSE IF y.nan THEN x ELSE Float(Min(x.num, y.num))

\* f64 as u32: truncation toward zero, saturating, NaN to 0
as_u32(x) ==
    IF x.nan \/ x.num < 0 THEN 0
    ELSE IF x.num \div UvDen > U32_MAX THEN U32_MAX ELSE x.num \div UvDen

\* A conversion that does not flip the v axis.
uv_to_pixel_coords_no_flip(coords, width, height) ==
    [k \in 1 .. Len(coords) |->
        << as_u32(min_f64(times(clamp_0_1(coords[k][1]), width), Float((width - 1) * UvDen))),
           as_u32(min_f64(times(clamp_0_1(coords[k][2]), height),
                          Float((height - 1) * UvDen))) >>]

\* uv_to_pixel_coords
uv_to_pixel_coords(coords, width, height) ==
    [k \in 1 .. Len(coords) |->
        << as_u32(min_f64(times(clamp_0_1(coords[k][1]), width), Float((width - 1) * UvDen))),
           as_u32(min_f64(times(one_minus(clamp_0_1(coords[k][2])), height),
                          Float((height - 1) * UvDen))) >>]

\* The fold of calc_bbox from point k on.
RECURSIVE calc_bbox_fold(_, _, _)
calc_bbox_fold(acc, coords, k) ==
    IF k > Len(coords) THEN acc
    ELSE calc_bbox_fold(<< Min(acc[1], coords[k][1]), Min(acc[2], coords[k][2]),
                           Max(acc[3], coords[k][1]), Max(acc[4], coords[k][2]) >>,
                        coords, k + 1)

\* calc_bbox
calc_bbox(coords) == calc_bbox_fold(<<U32_MAX, U32_MAX, 0, 0>>, coords, 1)

\* The UV coordinates of the model: -1/UvDen .. (UvDen + 1)/UvDen, and NaN.
UvValues == { Float(n) : n \in -1 .. UvDen + 1 } \cup { NaN }

UvPolygons ==
    UNION { [1 .. n -> UvValues \X UvValues] : n \in 0 .. MaxPoly }

\* The round trip of the spec: the unit square over an image of 100 x 100.
ScenarioSize == 100
ScenarioUv ==
    << <<Float(0), Float(0)>>, <<Float(UvDen), Float(0)>>,
       <<Float(UvDen), Float(UvDen)>>, <<Float(0), Float(UvDen)>> >>

InitUv ==
    /\ texture_pc = "uv"
    /\ \/ size \in (1 .. MaxSize) \X (1 .. MaxSize) /\ uv_coords \in UvPolygons
       \/ size = <<ScenarioSize, ScenarioSize>> /\ uv_coords = ScenarioUv
    /\ pixel_coords = None
    /\ bbox = None
    /\ factor = <<>>
    /\ downsample_factor = <<>>
    /\ clipped_dims = <<>>
    /\ scaled = <<>>
    /\ texture_a = <<>>
    /\ texture_b = <<>>
    /\ overlap_results = <<>>
    /\ DSIdle
    /\ PackIdle
    /\ CropIdle
    /\ ExportIdle

\* let pixel_coords = uv_to_pixel_coords(uv_coords, size.0, size.1)
UvToPixelCoords ==
    /\ texture_pc = "uv"
    /\ texture_pc' = "pixels"
    /\ pixel_coords' = Some(uv_to_pixel_coords(uv_coords, size[1], size[2]))
    /\ UNCHANGED <<factor, downsample_factor, clipped_dims, scaled, texture_a, texture_b,
                   overlap_results, size, uv_coords, bbox>>
    /\ UNCHANGED ds_vars
    /\ UNCHANGED pack_vars
    /\ UNCHANGED crop_vars
    /\ UNCHANGED export_vars

\* let (min_x, min_y, max_x, max_y) = calc_bbox(&pixel_coords)
CalcBbox ==
    /\ texture_pc = "pixels"
    /\ texture_pc' = "bbox"
    /\ bbox' = Some(calc_bbox(unwrap(pixel_coords)))
    /\ UNCHANGED <<factor, downsample_factor, clipped_dims, scaled, texture_a, texture_b,
                   overlap_results, size, uv_coords, pixel_coords>>
    /\ UNCHANGED ds_vars
    /\ UNCHANGED pack_vars
    /\ UNCHANGED crop_vars
    /\ UNCHANGED export_vars

NextUv ==
    \/ UvToPixelCoords
    \/ CalcBbox

SpecUv == InitUv /\ [][NextUv]_vars

InitDS ==
    /\ parent = DisjointSet_new(DSSize)
    /\ groups = {{i} : i \in 0 .. DSSize - 1}
    /\ PackIdle
    /\ CropIdle
    /\ ExportIdle
    /\ TextureIdle

\* ds.unite(x, y) on valid indices
Unite(x, y) ==
    /\ parent' = unite(parent, x, y)
    /\ groups' = MergeBlocks(groups, x, y)
    /\ UNCHANGED pack_vars
    /\ UNCHANGED export_vars
    /\ UNCHANGED crop_vars
    /\ UNCHANGED texture_vars

NextDS == \E x, y \in 0 .. DSSize - 1 : Unite(x, y)

SpecDS == InitDS /\ [][NextDS]_vars

-----------------------------------------------------------------------------
(***************************************************************************)
(* Properties                                                              *)
(***************************************************************************)

\* The answers of can_place so far were all TRUE.
UnlimitedCapacity ==
    \A k \in 1 .. Len(calls) : calls[k].op = "can_place" => calls[k].ret

\* Some can_place answered FALSE.
SomeRefusal ==
    \E k \in 1 .. Len(calls) : calls[k].op = "can_place" /\ ~calls[k].ret

\* The number of insert calls made for texture id.
InsertCount(id) == Cardinality({ k \in 1 .. Len(inserted) : inserted[k] = id })

\* C1: after pack every texture id that was added has exactly one placement
\* record: get_texture_info(id) returns a record for every added id, the
\* records are those of the added ids and no others, and each id was inserted
\* exactly once, for any cluster order and any can_place answers.
C1_OneRecordPerFragment ==
    pc = "finalized" =>
        /\ DOMAIN texture_info_map = DOMAIN textures
        /\ \A id \in DOMAIN textures :
              /\ is_some(get_texture_info(id))
              /\ InsertCount(id) = 1
        /\ Len(inserted) = Cardinality(DOMAIN textures)

\* Three fragments in two clusters were packed, with a page turned over.
C1_Witness ==
    /\ pc = "finalized"
    /\ Cardinality(DOMAIN textures) = 3
    /\ Cardinality(DOMAIN clusters) = 2
    /\ SomeRefusal
    /\ \A id \in DOMAIN textures : is_some(get_texture_info(id))

\* C2: page ids are 0, 1, 2, ... in finalization order: the k-th page stored
\* (counting from 0) is stored under id k, no id is reused or skipped, and the
\* set of page ids is {0, ..., P-1} for P pages.
C2_SequentialPageIds ==
    /\ \A k \in 1 .. Len(finalOrder) : finalOrder[k] = to_string(k - 1)
    /\ DOMAIN atlases = { to_string(k) : k \in 0 .. Len(finalOrder) - 1 }
    /\ Cardinality(DOMAIN atlases) = Len(finalOrder)

\* Pack ended with three pages stored.
C2_Witness ==
    /\ pc = "finalized"
    /\ Len(finalOrder) = 3
    /\ DOMAIN atlases = {<<0>>, <<1>>, <<2>>}

\* C3: a placement failure after a reset is fatal: an item that can_place
\* refused and that does not fit the empty page is never given to
\* place_texture, and pack ends in a fatal error instead of returning a provider.
C3_CapacityFailureIsFatal ==
    \A j \in 1 .. Len(calls) :
        (calls[j].op = "can_place" /\ ~calls[j].ret /\ ~calls[j].fits_empty_page) =>
            /\ pc # "finalized"
            /\ \A k \in 1 .. Len(calls) :
                  calls[k].op = "place_texture" => calls[k].cluster_id # calls[j].cluster_id

\* The texture ids of a cluster's children, as a set.
Members(cluster) == { cluster.children[k][1] : k \in DOMAIN cluster.children }

\* The ids reachable from the ids in S along overlapping pairs of textures.
RECURSIVE OverlapReach(_)
OverlapReach(S) ==
    LET T == S \cup { b \in DOMAIN textures : \E a \in S : overlaps(textures[a], textures[b]) }
    IN  IF T = S THEN S ELSE OverlapReach(T)

\* The connected components of the overlap graph of the added textures.
OverlapComponents == { OverlapReach({a}) : a \in DOMAIN textures }

\* C4: the clusters of create_cluster are the connected components of the
\* overlap graph, whatever the order the texture ids were indexed in: two
\* fragments share a cluster iff a chain of pairwise-overlapping fragments
\* links them, every fragment is a child of exactly one cluster (once), and a
\* fragment that overlaps no other is a singleton cluster.
C4_ClustersAreComponents ==
    pc = "packing" =>
        /\ { Members(clusters[c]) : c \in DOMAIN clusters } = OverlapComponents
        /\ \A c, d \in DOMAIN clusters :
              c # d => Members(clusters[c]) \cap Members(clusters[d]) = {}
        /\ \A c \in DOMAIN clusters :
              Cardinality(Members(clusters[c])) = Len(clusters[c].children)
        /\ \A a \in DOMAIN textures :
              (\A b \in DOMAIN textures \ {a} : ~overlaps(textures[a], textures[b])) =>
                  \E c \in DOMAIN clusters : Members(clusters[c]) = {a}

\* A-B and B-C overlap, A and C do not, and A, B, C are in one cluster.
C4_Witness ==
    /\ pc = "packing"
    /\ \E c \in DOMAIN clusters : \E a, b, d \in Members(clusters[c]) :
          /\ overlaps(textures[a], textures[b])
          /\ overlaps(textures[b], textures[d])
          /\ ~overlaps(textures[a], textures[d])

\* C5: clustering never merges fragments of different source images, even if
\* their boxes coincide: create_cluster completes and all the members of a
\* cluster have the same image path.
C5_OneSourcePerCluster ==
    /\ pc # "panicked"
    /\ pc = "packing" =>
          \A c \in DOMAIN clusters : \A a, b \in Members(clusters[c]) :
              textures[a].image_path = textures[b].image_path

\* Two fragments with the same box and different images are in different clusters.
C5_Witness ==
    /\ pc = "packing"
    /\ \E c, d \in DOMAIN clusters : \E a \in Members(clusters[c]), b \in Members(clusters[d]) :
          /\ c # d
          /\ SameBox(textures[a], textures[b])
          /\ textures[a].image_path # textures[b].image_path

SetMin(S) == CHOOSE m \in S : \A x \in S : m <= x
SetMax(S) == CHOOSE m \in S : \A x \in S : m >= x

\* C6: the toplevel box of every cluster is the minimal box containing every
\* member's box: its origin is the componentwise minimum of the members'
\* origins, its origin + size the componentwise maximum of the members'
\* origin + size, and every child's box lies within it.
C6_ToplevelIsBoundingBox ==
    pc = "packing" =>
        \A c \in DOMAIN clusters :
            LET top == clusters[c].toplevel_texture
                M == { textures[a] : a \in Members(clusters[c]) }
            IN  /\ top.origin[1] = SetMin({ t.origin[1] : t \in M })
                /\ top.origin[2] = SetMin({ t.origin[2] : t \in M })
                /\ top.origin[1] + top.width = SetMax({ t.origin[1] + t.width : t \in M })
                /\ top.origin[2] + top.height = SetMax({ t.origin[2] + t.height : t \in M })
                /\ \A t \in M :
                      /\ top.origin[1] <= t.origin[1]
                      /\ top.origin[2] <= t.origin[2]
                      /\ t.origin[1] + t.width <= top.origin[1] + top.width
                      /\ t.origin[2] + t.height <= top.origin[2] + top.height
                /\ \A k \in DOMAIN clusters[c].children :
                      LET child == clusters[c].children[k][2]
                      IN  /\ child.offset[1] >= 0
                          /\ child.offset[2] >= 0
                          /\ child.offset[1] + child.width <= top.width
                          /\ child.offset[2] + child.height <= top.height

\* A cluster of three whose toplevel box is larger than the box of each member.
C6_Witness ==
    /\ pc = "packing"
    /\ \E c \in DOMAIN clusters :
          /\ Len(clusters[c].children) = 3
          /\ \A a \in Members(clusters[c]) :
                ~SameBox(textures[a], clusters[c].toplevel_texture)

\* The parent array after the unit test's first three unites on 5 elements.
TestParent3 ==
    unite(unite(unite(DisjointSet_new(5), 0, 1), 3, 4), 1, 2)

\* C7: is_same(x, y) holds exactly when x and y are related by the reflexive,
\* symmetric, transitive closure of the united pairs (x and y are in one block
\* of the partition the unite calls generate); after unite(0,1), unite(3,4),
\* unite(1,2) on 5 elements {0,1,2} and {3,4} are separate groups, and after
\* a further unite(0,3) all five elements are mutually is_same.
C7_IsSameIsClosure ==
    /\ \A x, y \in 0 .. DSSize - 1 :
          is_same(parent, x, y) <=> (\E b \in groups : x \in b /\ y \in b)
    /\ \A x, y \in 0 .. 4 :
          is_same(TestParent3, x, y) <=> (\E b \in {{0, 1, 2}, {3, 4}} : x \in b /\ y \in b)
    /\ \A x, y \in 0 .. 4 : is_same(unite(TestParent3, 0, 3), x, y)

\* The state of the unit test before its last unite: {0,1,2} and {3,4}.
C7_Witness ==
    /\ parent = TestParent3
    /\ groups = {{0, 1, 2}, {3, 4}}
    /\ is_same(parent, 0, 2)
    /\ ~is_same(parent, 0, 3)

\* C8: with unlimited capacity (can_place always TRUE) pack produces exactly one
\* page, which holds the toplevel geometry of every cluster once; the three
\* pairwise-overlapping fragments of one image and the fragment of another
\* image with an identical box form 2 clusters, of 3 members and of 1 member.
C8_UnlimitedCapacityOnePage ==
    /\ pc # "panicked"
    /\ pc \in {"packing", "finalized"} =>
          /\ Cardinality(DOMAIN clusters) = 2
          /\ { Len(clusters[c].children) : c \in DOMAIN clusters } = {1, 3}
    /\ (pc = "finalized" /\ UnlimitedCapacity /\ DOMAIN textures # {}) =>
          /\ Cardinality(DOMAIN atlases) = 1
          /\ \A a \in DOMAIN atlases :
                /\ Len(atlases[a]) = Cardinality(DOMAIN clusters)
                /\ \A c \in DOMAIN clusters :
                      Cardinality({ k \in DOMAIN atlases[a] : atlases[a][k].cluster_id = c }) = 1

\* The scenario was packed with every can_place answered TRUE.
C8_Witness ==
    /\ pc = "finalized"
    /\ UnlimitedCapacity
    /\ Cardinality(DOMAIN textures) = 4
    /\ Len(calls) = 4
    /\ Cardinality(DOMAIN atlases) = 1

\* The concatenation of the sequences of ss.
RECURSIVE Flatten(_)
Flatten(ss) == IF ss = <<>> THEN <<>> ELSE Head(ss) \o Flatten(Tail(ss))

\* C9: the assembly of crop's result does not depend on the workers'
\* schedule: the chunks are contiguous and partition the pixels of the crop
\* rectangle, no coordinate is written twice, and once every batch is
\* received, in whatever order they arrived, every coordinate was written
\* exactly once and the buffer holds the pixels of the crop rectangle.
C9_MergeIsOrderIndependent ==
    /\ Flatten(crop_chunks(crop, num_threads)) = enumerate_pixels(crop)
    /\ \A k \in DOMAIN crop_chunks(crop, num_threads) :
          Len(crop_chunks(crop, num_threads)[k]) >= 1
    /\ \A c \in DOMAIN put_count : put_count[c] <= 1
    /\ CropMerged =>
          /\ \A c \in DOMAIN put_count : put_count[c] = 1
          /\ clipped = cropped_image(crop)

\* Nine pixels in three chunks, the last one shorter; the batch of the first
\* chunk arrived last and is still in the channel, the others are merged.
C9_Witness ==
    /\ sent = DOMAIN crop_chunks(crop, num_threads)
    /\ crop.width * crop.height = 9
    /\ Len(crop_chunks(crop, num_threads)) = 3
    /\ Len(crop_chunks(crop, num_threads)[3]) < Len(crop_chunks(crop, num_threads)[1])
    /\ channel = << local_results(crop_chunks(crop, num_threads)[1]) >>
    /\ put_count[<<2, 2>>] = 1
    /\ clipped[<<2, 2>>] = cropped_image(crop)[<<2, 2>>]

\* C10: export hands every page to the exporter exactly once, at the path
\* output_dir joined with the page's own id, so the outputs of the pages are
\* pairwise distinct and, once export has returned, each holds its page
\* whatever the order the tasks ran in; export leaves the provider's pages,
\* clusters and placement records as they were.
C10_ExportOncePerPage ==
    pc \in {"exporting", "exported"} =>
        /\ <<atlases, clusters, texture_info_map>> = provider_at_export
        /\ DOMAIN outputs = { join(output_dir, id) : id \in export_done }
        /\ \A id \in export_done :
              /\ outputs[join(output_dir, id)] = atlases[id]
              /\ export_calls[join(output_dir, id)] = 1
        /\ Cardinality(DOMAIN outputs) = Cardinality(export_done)
        /\ pc = "exported" => export_done = DOMAIN atlases

\* Three pages were exported.
C10_Witness ==
    /\ pc = "exported"
    /\ Cardinality(DOMAIN atlases) = 3
    /\ Cardinality(DOMAIN outputs) = 3
    /\ \A id \in DOMAIN atlases : outputs[join(output_dir, id)] = atlases[id]

\* C11: for every crop with width >= 1 and height >= 1 and every downsample
\* factor in [0,1], the scaled width and the scaled height crop computes are
\* both at least 1.
C11_ScaledSizeAtLeastOne ==
    (texture_pc = "scaled" /\ clipped_dims[1] >= 1 /\ clipped_dims[2] >= 1)
        => (unwrap(scaled)[1] >= 1 /\ unwrap(scaled)[2] >= 1)

\* C12: a factor outside [0,1] makes DownsampleFactor::new panic and no
\* factor is constructed; a factor inside [0,1], bounds included, is accepted
\* and value() returns it unchanged.
C12_FactorOutsideRangeIsFatal ==
    texture_pc # "start" =>
        IF ~factor.nan /\ factor.num \in 0 .. FactorDen
        THEN /\ texture_pc \in {"constructed", "scaled"}
             /\ is_some(downsample_factor)
             /\ value(unwrap(downsample_factor)) = factor
        ELSE /\ texture_pc = "panicked"
             /\ downsample_factor = None

\* The construction with a factor just above 1 has panicked.
C12_Witness ==
    /\ texture_pc = "panicked"
    /\ factor = Float(FactorDen + 1)
    /\ downsample_factor = None

\* The closed boxes [x, x + w] x [y, y + h] of two textures share a point.
BoxesShareAPoint(a, b) ==
    \E px \in 0 .. ImgW, py \in 0 .. ImgH :
        /\ a.origin[1] <= px /\ px <= a.origin[1] + a.width
        /\ b.origin[1] <= px /\ px <= b.origin[1] + b.width
        /\ a.origin[2] <= py /\ py <= a.origin[2] + a.height
        /\ b.origin[2] <= py /\ py <= b.origin[2] + b.height

\* C13: overlaps(a, b) is true iff a and b have the same source image and
\* their boxes intersect, boxes that only touch included; overlaps(a, b) =
\* overlaps(b, a) and overlaps(a, a) is true.
C13_OverlapsIsBoxIntersection ==
    texture_pc = "overlaps" =>
        /\ \A c \in DOMAIN overlap_results :
              overlap_results[c] =
                  (/\ texture_of(c[1]).image_path = texture_of(c[2]).image_path
                   /\ BoxesShareAPoint(texture_of(c[1]), texture_of(c[2])))
        /\ ({<<1, 2>>, <<2, 1>>} \subseteq DOMAIN overlap_results
              => overlap_results[<<1, 2>>] = overlap_results[<<2, 1>>])
        /\ \A i \in 1 .. 2 : <<i, i>> \in DOMAIN overlap_results => overlap_results[<<i, i>>]

\* Two textures of one image whose boxes share one corner only: both orders
\* have answered true.
C13_Witness ==
    /\ texture_pc = "overlaps"
    /\ texture_a.image_path = texture_b.image_path
    /\ texture_a.origin = <<0, 0>> /\ texture_a.width = 1 /\ texture_a.height = 1
    /\ texture_b.origin = <<1, 1>>
    /\ DOMAIN overlap_results = {<<1, 2>>, <<2, 1>>, <<1, 1>>}
    /\ overlap_results[<<1, 2>>] /\ overlap_results[<<2, 1>>]

\* C14: uv_to_pixel_coords maps every UV point, inside [0,1] or not, to a
\* pixel in [0, width-1] x [0, height-1]: u grows with x, v against y, u <= 0
\* gives the left column and u >= 1 the right one, v >= 1 gives the top row
\* and v <= 0 the bottom one; followed by calc_bbox, the unit square over an
\* image of 100 x 100 gives (0, 0, 99, 99).
C14_UvToPixelClampedAndFlipped ==
    texture_pc \in {"pixels", "bbox"} =>
        LET pixels == unwrap(pixel_coords)
            width == size[1]
            height == size[2]
        IN  /\ Len(pixels) = Len(uv_coords)
            /\ \A k \in 1 .. Len(uv_coords) :
                  LET u == uv_coords[k][1]
                      v == uv_coords[k][2]
                  IN  /\ pixels[k][1] \in 0 .. width - 1
                      /\ pixels[k][2] \in 0 .. height - 1
                      /\ (~u.nan /\ u.num <= 0) => pixels[k][1] = 0
                      /\ (~u.nan /\ u.num >= UvDen) => pixels[k][1] = width - 1
                      /\ (~v.nan /\ v.num >= UvDen) => pixels[k][2] = 0
                      /\ (~v.nan /\ v.num <= 0) => pixels[k][2] = height - 1
            /\ \A k, l \in 1 .. Len(uv_coords) :
                  /\ (~uv_coords[k][1].nan /\ ~uv_coords[l][1].nan
                        /\ uv_coords[k][1].num <= uv_coords[l][1].num)
                       => pixels[k][1] <= pixels[l][1]
                  /\ (~uv_coords[k][2].nan /\ ~uv_coords[l][2].nan
                        /\ uv_coords[k][2].num <= uv_coords[l][2].num)
                       => pixels[k][2] >= pixels[l][2]
            /\ (texture_pc = "bbox" /\ uv_coords = ScenarioUv
                  /\ size = <<ScenarioSize, ScenarioSize>>)
                 => bbox = Some(<<0, 0, ScenarioSize - 1, ScenarioSize - 1>>)

\* The round trip has run on the unit square over the image of 100 x 100.
C14_Witness ==
    /\ texture_pc = "bbox"
    /\ uv_coords = ScenarioUv
    /\ size = <<100, 100>>
    /\ unwrap(pixel_coords) = << <<0, 99>>, <<99, 99>>, <<99, 0>>, <<0, 0>> >>
    /\ bbox = Some(<<0, 0, 99, 99>>)

\* The orders in which the members of a cluster can be folded.
MemberOrders(cluster) ==
    { order \in [1 .. Len(cluster.children) -> Members(cluster)] :
        \A i, j \in 1 .. Len(cluster.children) : order[i] = order[j] => i = j }

\* C15: for every cluster and every permutation of its members, the fold
\* through expand yields the toplevel box the cluster has (same origin, same
\* size).
C15_FoldOrderIndependent ==
    pc = "packing" =>
        \A c \in DOMAIN clusters :
            \A order \in MemberOrders(clusters[c]) :
                LET folded == fold_toplevel(None, textures, order, 1)
                IN  /\ is_some(folded)
                    /\ unwrap(folded).origin = clusters[c].toplevel_texture.origin
                    /\ unwrap(folded).width = clusters[c].toplevel_texture.width
                    /\ unwrap(folded).height = clusters[c].toplevel_texture.height

\* A cluster of three members with three different boxes, none of which is the
\* toplevel box: the six orders of the fold pass through different boxes.
C15_Witness ==
    /\ pc = "packing"
    /\ \E c \in DOMAIN clusters :
          /\ Cardinality(MemberOrders(clusters[c])) = 6
          /\ \A a, b \in Members(clusters[c]) :
                a # b => ~SameBox(textures[a], textures[b])
          /\ \A a \in Members(clusters[c]) :
                ~SameBox(textures[a], clusters[c].toplevel_texture)

\* The element reached from x by following k parent pointers.
RECURSIVE ancestor(_, _, _)
ancestor(p, x, k) == IF k = 0 THEN x ELSE ancestor(p, p[x], k - 1)

\* C16: after any sequence of unite calls the parent array is a forest: from
\* every element, at most n-1 parent pointers lead to an element that is its
\* own parent, no element is visited twice on the way, and root(x) is that
\* element.
C16_ParentIsForest ==
    parent # <<>> =>
        \A x \in DOMAIN parent :
            /\ parent[ancestor(parent, x, DSSize - 1)] = ancestor(parent, x, DSSize - 1)
            /\ \A i, j \in 0 .. DSSize - 1 :
                  (i < j /\ ancestor(parent, x, i) = ancestor(parent, x, j))
                      => parent[ancestor(parent, x, i)] = ancestor(parent, x, i)
            /\ root(parent, x) = ancestor(parent, x, DSSize - 1)

\* All elements are in one set and one of them is n-1 pointers away from the
\* root: the bound is met, and every further unite is on two elements of the
\* same set.
C16_Witness ==
    /\ parent # <<>>
    /\ groups = { DOMAIN parent }
    /\ \E x \in DOMAIN parent :
          parent[ancestor(parent, x, DSSize - 2)] # ancestor(parent, x, DSSize - 2)

\* The places (page id, position) of the stored pages that hold the geometry
\* of a cluster.
PlacesOf(cluster_id) ==
    { place \in (DOMAIN atlases) \X (1 .. MaxFrag + 1) :
        /\ place[2] <= Len(atlases[place[1]])
        /\ atlases[place[1]][place[2]].cluster_id = cluster_id }

\* C17: the page id given to place_texture for an item is the id under which
\* the page that holds the item's geometry is stored in the provider, and the
\* id its children's placements carry, for every sequence of can_place answers.
C17_PlacedPageIdIsStoredPageId ==
    pc = "finalized" =>
        \A k \in DOMAIN calls :
            calls[k].op = "place_texture" =>
                /\ calls[k].atlas_id \in DOMAIN atlases
                /\ \A place \in PlacesOf(calls[k].cluster_id) :
                      place[1] = calls[k].atlas_id
                /\ \E place \in PlacesOf(calls[k].cluster_id) :
                      atlases[place[1]][place[2]].atlas_id = place[1]
                /\ \A a \in Members(clusters[calls[k].cluster_id]) :
                      /\ is_some(get_texture_info(a))
                      /\ unwrap(get_texture_info(a)).atlas_id = calls[k].atlas_id

\* Two clusters or more; can_place answered false on the first item and on
\* the last one, and pack has returned.
C17_Witness ==
    /\ pc = "finalized"
    /\ Cardinality(DOMAIN clusters) >= 2
    /\ calls[1].op = "can_place" /\ ~calls[1].ret
    /\ calls[Len(calls) - 1].op = "reset_param"
    /\ calls[Len(calls)].atlas_id = to_string(Cardinality(DOMAIN clusters))

\* C18: every page stored in the provider pack returns holds at least one
\* geometry, for every sequence of can_place answers; packing an empty packer
\* gives no page and no placement record.
C18_NoEmptyPage ==
    pc = "finalized" =>
        /\ \A a \in DOMAIN atlases : atlases[a] # <<>>
        /\ textures = <<>> => (atlases = <<>> /\ texture_info_map = <<>>)

\* The cluster ids of the place_texture calls with a page id, in the order
\* of the calls, from call k on.
RECURSIVE PlacedOn(_, _)
PlacedOn(atlas_id, k) ==
    IF k > Len(calls) THEN <<>>
    ELSE (IF calls[k].op = "place_texture" /\ calls[k].atlas_id = atlas_id
          THEN <<calls[k].cluster_id>> ELSE <<>>)
         \o PlacedOn(atlas_id, k + 1)

\* C19: pack loses and duplicates no cluster: the toplevel geometry of every
\* cluster is at one place of one stored page, the pages hold as many
\* geometries as there are clusters, and the geometries of a page are in the
\* order in which their clusters were placed.
C19_NoClusterLostOrDuplicated ==
    pc = "finalized" =>
        /\ \A c \in DOMAIN clusters :
              /\ Cardinality(PlacesOf(c)) = 1
              /\ \A place \in PlacesOf(c) :
                    /\ atlases[place[1]][place[2]].width = clusters[c].toplevel_texture.width
                    /\ atlases[place[1]][place[2]].height = clusters[c].toplevel_texture.height
        /\ Cardinality(UNION { PlacesOf(c) : c \in DOMAIN clusters })
               = Cardinality(DOMAIN clusters)
        /\ \A a \in DOMAIN atlases :
              /\ Len(atlases[a]) = Len(PlacedOn(a, 1))
              /\ \A g \in 1 .. Len(atlases[a]) :
                    atlases[a][g].cluster_id = PlacedOn(a, 1)[g]

\* Three clusters on two pages: two geometries on page 0, one on page 1.
C19_Witness ==
    /\ pc = "finalized"
    /\ Cardinality(DOMAIN clusters) = 3
    /\ DOMAIN atlases = {to_string(0), to_string(1)}
    /\ Len(atlases[to_string(0)]) = 2
    /\ Len(atlases[to_string(1)]) = 1

\* The number of calls of an operation on the placer.
CallCount(op) == Cardinality({ k \in DOMAIN calls : calls[k].op = op })

\* C20: for every item pack makes one can_place, then reset_param if and only
\* if can_place answered false (the page has been stored and the working page
\* cleared by then), then one place_texture; reset_param is called at no other
\* point and place_texture never before the item's can_place.
C20_PlacerProtocol ==
    pc \in {"packing", "finalized"} =>
        /\ \A k \in DOMAIN calls :
              /\ calls[k].op = "can_place" =>
                    IF calls[k].ret
                    THEN /\ k + 1 <= Len(calls)
                         /\ calls[k + 1].op = "place_texture"
                         /\ calls[k + 1].cluster_id = calls[k].cluster_id
                    ELSE /\ k + 2 <= Len(calls)
                         /\ calls[k + 1].op = "reset_param"
                         /\ calls[k + 2].op = "place_texture"
                         /\ calls[k + 2].cluster_id = calls[k].cluster_id
              /\ calls[k].op = "reset_param" =>
                    /\ k > 1
                    /\ calls[k - 1].op = "can_place"
                    /\ ~calls[k - 1].ret
              /\ calls[k].op = "place_texture" =>
                    /\ k > 1
                    /\ \/ /\ calls[k - 1].op = "can_place"
                          /\ calls[k - 1].ret
                          /\ calls[k - 1].cluster_id = calls[k].cluster_id
                       \/ calls[k - 1].op = "reset_param"
        /\ \A c \in DOMAIN clusters :
              /\ Cardinality({ k \in DOMAIN calls :
                                 calls[k].op = "can_place" /\ calls[k].cluster_id = c })
                    = IF c \in remaining THEN 0 ELSE 1
              /\ Cardinality({ k \in DOMAIN calls :
                                 calls[k].op = "place_texture" /\ calls[k].cluster_id = c })
                    = IF c \in remaining THEN 0 ELSE 1
        /\ pc = "packing" =>
              /\ CallCount("reset_param") = Cardinality(DOMAIN atlases)
              /\ (calls # <<>> /\ calls[Len(calls) - 1].op = "reset_param")
                    => Len(current_atlas) = 1

\* Three items: the first was accepted, the second refused and placed after a
\* reset, the third accepted.
C20_Witness ==
    /\ pc = "finalized"
    /\ Len(calls) = 7
    /\ calls[1].op = "can_place" /\ calls[1].ret
    /\ calls[3].op = "can_place" /\ ~calls[3].ret
    /\ calls[4].op = "reset_param"
    /\ calls[5].op = "place_texture" /\ calls[5].atlas_id = to_string(1)
    /\ calls[6].op = "can_place" /\ calls[6].ret

=============================================================================
